---- MODULE Spec2Model ----
(***************************************************************************)
(* State-machine model of the two browser workflows of the repository:     *)
(*   download_decision_notice   (src/pdonline_pdf_downloader.py)           *)
(*   scrape_goldcoast_property  (src/goldcoast_scraper.py)                 *)
(* and of the pure text extractors they call.                              *)
(*                                                                         *)
(* Text is modelled as a sequence of tokens.  A token is an atomic piece   *)
(* of page text (a phrase, a newline, a blank); the regular expressions    *)
(* and substring tests of the source are evaluated token by token.         *)
(***************************************************************************)
EXTENDS Integers, Sequences, FiniteSets, TLC

VARIABLES
    workflow,               \* which entry point runs
    pc,                     \* position of the run in the function body
    debug,                  \* download_decision_notice(debug=...)
    err,                    \* the exception being handled ("none" when there is none)
    steps,                  \* workflow steps executed so far, in order
    shots,                  \* diagnostic page.screenshot calls invoked so far, by site
    browser_open,           \* FALSE once browser.close() has run
    ret,                    \* what the caller receives
    attempts,               \* selectors_to_try entries attempted, in order
    input_filled,           \* pdonline: input_filled
    found_markers,          \* pdonline: found_markers
    docs_section_found,     \* pdonline: docs_section_found
    all_rows,               \* pdonline: all_rows
    documents_found,        \* pdonline: documents_found (names)
    decision_notice_link,   \* pdonline: index of the row whose link was chosen, 0 = None
    cards,                  \* goldcoast: texts of the divs of #isoplan-property-detail
    wait_outcome,           \* goldcoast: outcome of the zone-text readiness wait
    panel_attempts,         \* goldcoast: panel selectors attempted, in order
    panel_source,           \* goldcoast: where panel_text was read from
    panel_text,             \* goldcoast: panel_text
    result,                 \* goldcoast: PropertyData
    height_layer,           \* goldcoast: outcome of the building height capture
    branch,                 \* pdonline: what STEP 3 found after the search
    result_clicks,          \* pdonline: clicks on the first result row's link
    search_submits,         \* pdonline: clicks on the search button
    exit_status             \* __main__: exit status of the process, -1 while it runs

vars == <<workflow, pc, debug, err, steps, shots, browser_open, ret, attempts,
          input_filled, found_markers, docs_section_found, all_rows,
          documents_found, decision_notice_link, cards, wait_outcome,
          panel_attempts, panel_source, panel_text, result, height_layer,
          branch, result_clicks, search_submits, exit_status>>

(***************************************************************************)
(* Bounds of the model.                                                    *)
(***************************************************************************)
MaxRows == 3
MaxOverlayText == 5
MaxPanelText == 2
MaxCards == 2
MaxGroup == 2

(***************************************************************************)
(* Generic helpers.                                                        *)
(***************************************************************************)
Range(s) == {s[i] : i \in 1..Len(s)}

SeqsUpTo(S, n) == UNION {[1..k -> S] : k \in 0..n}

None == "None"

NoValue == [some |-> FALSE, val |-> <<>>]

Some(v) == [some |-> TRUE, val |-> v]

\* Python truthiness of an Optional[str]: None and "" are both falsy.
Truthy(o) == o.some /\ o.val # <<>>

(***************************************************************************)
(* Tokens of page text.                                                    *)
(***************************************************************************)
NL == "\n"
SP == " "

\* str.lower() of a token.
Lower(t) ==
    CASE t = "Overlays" -> "overlays"
      [] t = "OVERLAYS" -> "overlays"
      [] t = "LGIP" -> "lgip"
      [] t = "Local Government" -> "local government"
      [] t = "Plan Zone" -> "plan zone"
      [] t = "Zone" -> "zone"
      [] t = "Flood overlay" -> "flood overlay"
      [] t = "FLOOD OVERLAY" -> "flood overlay"
      [] t = "Bushfire overlay" -> "bushfire overlay"
      [] t = "Show on map" -> "show on map"
      [] t = "SHOW ON MAP" -> "show on map"
      [] t = "View section" -> "view section"
      [] t = "Flood" -> "flood"
      [] t = "Low density residential" -> "low density residential"
      [] t = "Low-medium density residential" -> "low-medium density residential"
      [] t = "LOW-MEDIUM DENSITY RESIDENTIAL" -> "low-medium density residential"
      [] t = "Medium density residential" -> "medium density residential"
      [] t = "MEDIUM DENSITY RESIDENTIAL" -> "medium density residential"
      [] t = "High density residential" -> "high density residential"
      [] t = "Residential density: RD2" -> "residential density: rd2"
      [] OTHER -> t

\* len() of a token.
TokLen(t) ==
    CASE t = NL -> 1
      [] t = SP -> 1
      [] Lower(t) = "overlays" -> 8
      [] Lower(t) = "lgip" -> 4
      [] Lower(t) = "local government" -> 16
      [] Lower(t) = "plan zone" -> 9
      [] Lower(t) = "zone" -> 4
      [] Lower(t) = "flood overlay" -> 13
      [] Lower(t) = "bushfire overlay" -> 16
      [] Lower(t) = "show on map" -> 11
      [] Lower(t) = "view section" -> 12
      [] Lower(t) = "flood" -> 5
      [] Lower(t) = "low density residential" -> 23
      [] Lower(t) = "low-medium density residential" -> 30
      [] Lower(t) = "medium density residential" -> 26
      [] Lower(t) = "high density residential" -> 24
      [] Lower(t) = "residential density: rd2" -> 24
      [] OTHER -> 6

\* The leftmost of the positions where a pattern matches, 0 when there is none.
Leftmost(hits) ==
    IF hits = {} THEN 0 ELSE CHOOSE i \in hits : \A j \in hits : i <= j

(***************************************************************************)
(* extract_zone_density_overlays: the zone.                                *)
(***************************************************************************)
ZoneCategories ==
    {"low density residential", "low-medium density residential",
     "medium density residential", "high density residential"}

\* The alternation of the zone pattern matches at this token (re.I).
ZoneMatchAt(t) == Lower(t) \in ZoneCategories

\* group(1) of a match is the text as it stands in the panel.
ZoneGroup(t) == t

\* re.search returns the leftmost match.
ZoneSearchMut(text) ==
    IF \E i \in 1..Len(text) : ZoneMatchAt(text[i])
    THEN CHOOSE i \in 1..Len(text) :
            ZoneMatchAt(text[i]) /\ \A j \in (i + 1)..Len(text) : ~ZoneMatchAt(text[j])
    ELSE 0
ZoneSearch(text) == Leftmost({i \in 1..Len(text) : ZoneMatchAt(text[i])})

ExtractZone(text) ==
    LET i == ZoneSearch(text)
    IN  IF i = 0 THEN None ELSE ZoneGroup(text[i])

(***************************************************************************)
(* extract_zone_density_overlays: the residential density.                 *)
(***************************************************************************)
DensityMatchAt(t) == Lower(t) = "residential density: rd2"

ExtractDensity(text) ==
    IF Leftmost({i \in 1..Len(text) : DensityMatchAt(text[i])}) = 0 THEN None ELSE "RD2"

(***************************************************************************)
(* extract_zone_density_overlays: the overlays.                            *)
(***************************************************************************)
MinOverlayLen == 5

StartAnchorAt(t) == Lower(t) = "overlays"

EndAnchorAt(t) == Lower(t) \in {"lgip", "local government", "plan zone"}

Exclude == {"view section", "show on map", "overlays"}

\* overlay_section.group(1): lazily from the first start anchor to the first
\* end anchor after it, or to the end of the text.
OverlaySection(text) ==
    LET s == Leftmost({i \in 1..Len(text) : StartAnchorAt(text[i])})
        rest == SubSeq(text, s + 1, Len(text))
        e == Leftmost({i \in 1..Len(rest) : EndAnchorAt(rest[i])})
    IN  IF e = 0 THEN rest ELSE SubSeq(rest, 1, e - 1)

RECURSIVE SplitLines(_)
SplitLines(text) ==
    LET n == Leftmost({i \in 1..Len(text) : text[i] = NL})
    IN  IF text = <<>> THEN <<>>
        ELSE IF n = 0 THEN <<text>>
        ELSE <<SubSeq(text, 1, n - 1)>> \o SplitLines(SubSeq(text, n + 1, Len(text)))

RECURSIVE Strip(_)
Strip(ln) ==
    IF ln = <<>> THEN ln
    ELSE IF Head(ln) = SP THEN Strip(Tail(ln))
    ELSE IF ln[Len(ln)] = SP THEN Strip(SubSeq(ln, 1, Len(ln) - 1))
    ELSE ln

\* [ln.strip() for ln in overlay_text.splitlines() if ln.strip()]
StrippedLines(text) ==
    LET raw == SplitLines(text)
        stripped == [i \in 1..Len(raw) |-> Strip(raw[i])]
    IN  SelectSeq(stripped, LAMBDA ln : ln # <<>>)

RECURSIVE LineLen(_)
LineLen(ln) == IF ln = <<>> THEN 0 ELSE TokLen(Head(ln)) + LineLen(Tail(ln))

\* any(ex in ln.lower() for ex in exclude)
Excluded(ln) == \E i \in 1..Len(ln) : Lower(ln[i]) \in Exclude

\* The guard of overlays.append(ln).
KeepOverlayMut(ln, overlays) == LineLen(ln) > MinOverlayLen
KeepOverlay(ln, overlays) == LineLen(ln) > MinOverlayLen /\ ln \notin Range(overlays)

\* for ln in lines: ...
RECURSIVE OverlayLoop(_, _)
OverlayLoop(lines, overlays) ==
    IF lines = <<>> THEN overlays
    ELSE IF Excluded(Head(lines)) THEN OverlayLoop(Tail(lines), overlays)
    ELSE IF KeepOverlay(Head(lines), overlays)
         THEN OverlayLoop(Tail(lines), Append(overlays, Head(lines)))
         ELSE OverlayLoop(Tail(lines), overlays)

ExtractOverlays(text) ==
    IF Leftmost({i \in 1..Len(text) : StartAnchorAt(text[i])}) = 0 THEN <<>>
    ELSE OverlayLoop(StrippedLines(OverlaySection(text)), <<>>)

(***************************************************************************)
(* extract_area_and_lotplan.                                               *)
(* A card is the text of one div: whether inner_text could be read, the    *)
(* group(1) of the area pattern (a sequence over digits, "." and ","),     *)
(* and the group(1) of the lot/plan pattern.                               *)
(***************************************************************************)
Card(readable, area, lot) == [readable |-> readable, area |-> area, lot |-> lot]

\* area_match.group(1).replace(",", "")
NormalizeArea(g) == SelectSeq(g, LAMBDA c : c # ",")

\* The body of the loop over the divs; acc is <<area, lotplan>>.
RECURSIVE CardLoop(_, _, _)
CardLoop(cs, area, lotplan) ==
    IF cs = <<>> THEN <<area, lotplan>>
    ELSE LET c == Head(cs)
             area1 == IF c.readable /\ c.area.some /\ ~Truthy(area)
                      THEN Some(NormalizeArea(c.area.val)) ELSE area
             lot1 == IF c.readable /\ c.lot # None /\ lotplan = None
                     THEN c.lot ELSE lotplan
         IN  CardLoop(Tail(cs), area1, lot1)

\* countOk = FALSE: container/divs/count raised, caught by the outer except.
ExtractAreaAndLotplan(cs, countOk) ==
    IF countOk THEN CardLoop(cs, NoValue, None) ELSE <<NoValue, None>>

(***************************************************************************)
(* download_decision_notice: the rows of the page and the two row scans.   *)
(* A row is: whether its text can be read, the words of row.inner_text(),  *)
(* the number of td cells, cells[1].inner_text().strip(), and whether      *)
(* 'td:first-child a' finds a link.                                        *)
(***************************************************************************)
Row(readable, text, ncells, name, link) ==
    [readable |-> readable, text |-> text, ncells |-> ncells, name |-> name,
     link |-> link]

RowKinds ==
    { Row(TRUE, <<"Plan", "Form">>, 2, "Plan Form", TRUE),
      Row(TRUE, <<"Signed", "Decision", "Notice">>, 2, "Signed Decision Notice", TRUE),
      Row(TRUE, <<"Signed", "Decision", "Notice", "(draft)">>, 2,
          "Signed Decision Notice (draft)", TRUE),
      Row(TRUE, <<"Signed", "Decision", "Notice">>, 2, "Signed Decision Notice", FALSE),
      Row(TRUE, <<"Cover", "Sheet">>, 2, "Cover Sheet", TRUE),
      Row(TRUE, <<"Report">>, 1, "", FALSE),
      Row(FALSE, <<>>, 0, "", FALSE) }

Pages == SeqsUpTo(RowKinds, MaxRows)

Keywords == {"Form", "Plan", "Report", "Notice", "Decision", "Letter"}

MarkerPhrase == <<"Signed", "Decision", "Notice">>

\* any(keyword in text for keyword in [...])
HasKeyword(text) == \E i \in 1..Len(text) : text[i] \in Keywords

\* 'Signed Decision Notice' in text
ContainsPhrase(text, phrase) ==
    \E i \in 0..(Len(text) - Len(phrase)) :
        \A k \in 1..Len(phrase) : text[i + k] = phrase[k]

\* The conditions under which the first loop appends the row's name.
ListedMut(row) == row.readable
Listed(row) ==
    row.readable /\ HasKeyword(row.text) /\ row.ncells >= 2 /\ row.name # ""

\* for row in all_rows: ... documents_found.append(...)
RECURSIVE DocumentsLoop(_, _)
DocumentsLoop(rows, found) ==
    IF rows = <<>> THEN found
    ELSE IF Listed(Head(rows))
         THEN DocumentsLoop(Tail(rows), Append(found, Head(rows).name))
         ELSE DocumentsLoop(Tail(rows), found)

\* The conditions under which the second loop takes the row and breaks.
Selectable(row) ==
    row.readable /\ ContainsPhrase(row.text, MarkerPhrase) /\ row.link

\* for row in all_rows: ... decision_notice_link = link_cell; break
RECURSIVE MatchLoop(_, _, _)
MatchLoopMut(rows, i, link) ==
    IF \E k \in 1..Len(rows) : Selectable(rows[k])
    THEN CHOOSE k \in 1..Len(rows) :
            Selectable(rows[k]) /\ \A j \in (k + 1)..Len(rows) : ~Selectable(rows[j])
    ELSE 0
MatchLoop(rows, i, link) ==
    IF i > Len(rows) THEN link
    ELSE IF Selectable(rows[i]) THEN i
    ELSE MatchLoop(rows, i + 1, link)

(***************************************************************************)
(* What the caller receives.                                               *)
(***************************************************************************)
Pending ==
    [kind |-> "pending", success |-> FALSE, error |-> "none", file_path |-> None,
     documents_available |-> <<>>]

Failure(error, docs) ==
    [kind |-> "return", success |-> FALSE, error |-> error, file_path |-> None,
     documents_available |-> docs]

Success(path) ==
    [kind |-> "return", success |-> TRUE, error |-> "none", file_path |-> path,
     documents_available |-> <<>>]

Raised(error) ==
    [kind |-> "raise", success |-> FALSE, error |-> error, file_path |-> None,
     documents_available |-> <<>>]

dlVars == <<attempts, input_filled, found_markers, docs_section_found, all_rows,
            documents_found, decision_notice_link>>

gcVars ==
    <<cards, wait_outcome, panel_attempts, panel_source, panel_text, result,
      height_layer>>

navVars == <<branch, result_clicks, search_submits>>

(***************************************************************************)
(* download_decision_notice.                                               *)
(***************************************************************************)
NumSelectors == 3

\* Whether the browser is still open when the function leaves at the given
\* site: each return of download_decision_notice is preceded by its own
\* browser.close(), and scrape_goldcoast_property closes in its finally.
BrowserAfterMut(site) == site = "no_rows"
BrowserAfter(site) == FALSE

\* An exception inside the outer try: control goes to the handler.
DlRaise(e) ==
    /\ pc' = "d_except"
    /\ err' = e

\* STEP 1: goto, 'All applications', terms radio button, Next.
DlNavigate ==
    /\ pc = "d_nav"
    /\ steps' = Append(steps, "navigate")
    /\ \E ok \in BOOLEAN :
          IF ok THEN pc' = "d_input" /\ err' = err ELSE DlRaise("NavError")
    /\ UNCHANGED <<workflow, debug, shots, browser_open, ret>>
    /\ UNCHANGED dlVars
    /\ UNCHANGED gcVars
    /\ UNCHANGED exit_status
    /\ UNCHANGED navVars

\* The selector the for loop is at.
NextSelectorMut(tried) == NumSelectors - Len(tried)
NextSelector(tried) == Len(tried) + 1

\* After a selector: break on success, fall through when the list is used up.
AfterSelector(sel, ok) ==
    IF ok THEN "d_search"
    ELSE IF sel = NumSelectors THEN "d_fallback" ELSE "d_input"

\* STEP 2: one iteration of "for selector in selectors_to_try"; ok is
\* wait_for_selector and fill both succeeding, anything else is caught.
DlTrySelector ==
    /\ pc = "d_input"
    /\ Len(attempts) < NumSelectors
    /\ LET sel == NextSelector(attempts)
       IN  \E ok \in BOOLEAN :
              /\ attempts' = Append(attempts, sel)
              /\ input_filled' = (input_filled \/ ok)
              /\ pc' = AfterSelector(sel, ok)
    /\ UNCHANGED <<workflow, debug, err, steps, shots, browser_open, ret,
                   found_markers, docs_section_found, all_rows, documents_found,
                   decision_notice_link>>
    /\ UNCHANGED gcVars
    /\ UNCHANGED exit_status
    /\ UNCHANGED navVars

\* "if not input_filled": fill the first text input of the page.
DlFallback ==
    /\ pc = "d_fallback"
    /\ steps' = Append(steps, "fallback")
    /\ \E ok \in BOOLEAN :
          IF ok THEN pc' = "d_search" /\ err' = err ELSE DlRaise("FillError")
    /\ UNCHANGED <<workflow, debug, shots, browser_open, ret>>
    /\ UNCHANGED dlVars
    /\ UNCHANGED gcVars
    /\ UNCHANGED exit_status
    /\ UNCHANGED navVars

\* Click the search button.
DlSearch ==
    /\ pc = "d_search"
    /\ steps' = Append(steps, "search")
    /\ search_submits' = search_submits + 1
    /\ UNCHANGED <<branch, result_clicks>>
    /\ \E ok \in BOOLEAN :
          IF ok THEN pc' = "d_branch" /\ err' = err ELSE DlRaise("SearchError")
    /\ UNCHANGED <<workflow, debug, shots, browser_open, ret>>
    /\ UNCHANGED dlVars
    /\ UNCHANGED gcVars
    /\ UNCHANGED exit_status

BranchOutcomes ==
    {"direct", "clicked", "click_error", "no_link", "no_rows", "table_error"}

BranchError(o) ==
    CASE o = "no_link" -> "No clickable link found"
      [] o = "no_rows" -> "No results found"
      [] OTHER -> "Results table not found"

\* link.click() is reached only on the summary page with a table, a row and
\* a link in the first row.
ResultClicksMut(o) == IF o \in {"direct", "clicked", "click_error"} THEN 1 ELSE 0
ResultClicks(o) == IF o \in {"clicked", "click_error"} THEN 1 ELSE 0

\* STEP 3: results/summary page or detail page.  "direct": the URL is not
\* the summary page; "clicked": the first row's link was clicked; the other
\* outcomes are the early returns ("click_error": the click or the wait
\* after it raised inside the inner try; "table_error": the table wait or
\* the row logging raised).
DlBranch ==
    /\ pc = "d_branch"
    /\ steps' = Append(steps, "branch")
    /\ \E o \in BranchOutcomes :
          /\ branch' = o
          /\ result_clicks' = result_clicks + ResultClicks(o)
          /\ IF o \in {"direct", "clicked"}
             THEN /\ pc' = "d_markers"
                  /\ UNCHANGED <<browser_open, ret>>
             ELSE /\ pc' = "done"
                  /\ browser_open' = BrowserAfter(o)
                  /\ ret' = Failure(BranchError(o), <<>>)
    /\ UNCHANGED search_submits
    /\ UNCHANGED <<workflow, debug, err, shots>>
    /\ UNCHANGED dlVars
    /\ UNCHANGED gcVars
    /\ UNCHANGED exit_status

NumMarkers == 4

MarkerOutcomes == {{}, {2}, 1..NumMarkers}

\* A page.screenshot outside any inner try: invoked at site, and when it
\* raises the exception reaches the outer handler.
WarnShotMut(needed, site, shotOk, next) ==
    IF needed
    THEN /\ shots' = Append(shots, site)
         /\ DlRaise("LocationFailure")
    ELSE /\ shots' = shots
         /\ pc' = next
         /\ err' = err
WarnShot(needed, site, shotOk, next) ==
    IF needed
    THEN /\ shots' = Append(shots, site)
         /\ IF shotOk THEN pc' = next /\ err' = err ELSE DlRaise("ShotError")
    ELSE /\ shots' = shots
         /\ pc' = next
         /\ err' = err

\* STEP 4: look for each detail-page marker; none found is a warning.
DlVerifyDetail ==
    /\ pc = "d_markers"
    /\ steps' = Append(steps, "markers")
    /\ \E found \in MarkerOutcomes, shotOk \in BOOLEAN :
          /\ found_markers' = found
          /\ WarnShot(found = {} /\ debug, "detail", shotOk, "d_docs")
    /\ UNCHANGED <<workflow, debug, browser_open, ret, attempts, input_filled,
                   docs_section_found, all_rows, documents_found,
                   decision_notice_link>>
    /\ UNCHANGED gcVars
    /\ UNCHANGED exit_status
    /\ UNCHANGED navVars

\* STEP 5: the heading (method 1), else a table with Link and Name headers
\* (method 2); not found is a warning.
DlLocateDocs ==
    /\ pc = "d_docs"
    /\ steps' = Append(steps, "docs")
    /\ \E method1 \in BOOLEAN, method2 \in BOOLEAN, shotOk \in BOOLEAN :
          /\ docs_section_found' = (method1 \/ method2)
          /\ WarnShot(~(method1 \/ method2) /\ debug, "nodocs", shotOk, "d_scan")
    /\ UNCHANGED <<workflow, debug, browser_open, ret, attempts, input_filled,
                   found_markers, all_rows, documents_found, decision_notice_link>>
    /\ UNCHANGED gcVars
    /\ UNCHANGED exit_status
    /\ UNCHANGED navVars

\* STEP 6, first loop: all_rows and documents_found.
DlScan ==
    /\ pc = "d_scan"
    /\ steps' = Append(steps, "scan")
    /\ \E ok \in BOOLEAN :
          IF ok
          THEN \E rows \in Pages :
                  /\ all_rows' = rows
                  /\ documents_found' = DocumentsLoop(rows, <<>>)
                  /\ pc' = "d_match"
                  /\ err' = err
          ELSE /\ DlRaise("ScanError")
               /\ UNCHANGED <<all_rows, documents_found>>
    /\ UNCHANGED <<workflow, debug, shots, browser_open, ret, attempts,
                   input_filled, found_markers, docs_section_found,
                   decision_notice_link>>
    /\ UNCHANGED gcVars
    /\ UNCHANGED exit_status
    /\ UNCHANGED navVars

\* STEP 6, second loop, and the "if not decision_notice_link" return.
DlMatch ==
    /\ pc = "d_match"
    /\ steps' = Append(steps, "match")
    /\ LET link == MatchLoop(all_rows, 1, 0)
       IN  /\ decision_notice_link' = link
           /\ IF link = 0
              THEN /\ pc' = "done"
                   /\ browser_open' = BrowserAfter("no_match")
                   /\ ret' = Failure("Signed Decision Notice not found", documents_found)
              ELSE /\ pc' = "d_download"
                   /\ UNCHANGED <<browser_open, ret>>
    /\ UNCHANGED <<workflow, debug, err, shots, attempts, input_filled,
                   found_markers, docs_section_found, all_rows, documents_found>>
    /\ UNCHANGED gcVars
    /\ UNCHANGED exit_status
    /\ UNCHANGED navVars

\* STEP 7: click the link, save the download, close, return.
DlDownload ==
    /\ pc = "d_download"
    /\ steps' = Append(steps, "download")
    /\ \E ok \in BOOLEAN :
          IF ok
          THEN /\ pc' = "done"
               /\ err' = err
               /\ browser_open' = BrowserAfter("success")
               /\ ret' = Success("Decision_Notice.pdf")
          ELSE /\ DlRaise("DownloadError")
               /\ UNCHANGED <<browser_open, ret>>
    /\ UNCHANGED <<workflow, debug, shots>>
    /\ UNCHANGED dlVars
    /\ UNCHANGED gcVars
    /\ UNCHANGED exit_status
    /\ UNCHANGED navVars

\* The failure handler's page.screenshot(...) call.
ErrorShotMut(taken) == taken
ErrorShot(taken) == Append(taken, "error")

\* What the handler returns as 'error': str(e) of the exception it caught.
HandlerError(e, shotOk) == e

\* "except Exception as e": with debug, page.url and the screenshot inside a
\* try of their own; then close and return the failure.
DlExcept ==
    /\ pc = "d_except"
    /\ \E urlOk \in BOOLEAN, shotOk \in BOOLEAN :
          /\ shots' = IF debug /\ urlOk THEN ErrorShot(shots) ELSE shots
          /\ ret' = Failure(HandlerError(err, ~(debug /\ urlOk) \/ shotOk), <<>>)
    /\ browser_open' = BrowserAfter("handler")
    /\ pc' = "done"
    /\ UNCHANGED <<workflow, debug, err, steps>>
    /\ UNCHANGED dlVars
    /\ UNCHANGED gcVars
    /\ UNCHANGED exit_status
    /\ UNCHANGED navVars

(***************************************************************************)
(* scrape_left_panel_text and scrape_goldcoast_property.                   *)
(***************************************************************************)
NumPanelSelectors == 5

PanelTokens ==
    {"Low density residential", "LOW-MEDIUM DENSITY RESIDENTIAL",
     "Medium density residential", "MEDIUM DENSITY RESIDENTIAL",
     "High density residential", "Zone", "Overlays", "Flood overlay", NL,
     "Local Government", "Residential density: RD2"}

PanelTexts == SeqsUpTo(PanelTokens, MaxPanelText)

\* if "zone" in text.lower() or "overlay" in text.lower()
Relevant(text) ==
    \E i \in 1..Len(text) :
        Lower(text[i]) \in {"zone", "plan zone", "overlays", "flood overlay",
                            "bushfire overlay"}

WorkflowCardPages ==
    { <<>>,
      <<Card(TRUE, NoValue, "4GTP446")>>,
      <<Card(TRUE, Some(<<"2", "0", "0">>), None), Card(TRUE, NoValue, "4GTP446")>>,
      <<Card(FALSE, NoValue, None), Card(TRUE, Some(<<"1", ",", "2">>), "4GTP446")>>,
      <<Card(TRUE, Some(<<",">>), None), Card(TRUE, Some(<<"7">>), None)>> }

NewPropertyData ==
    [address |-> "query", lot_plan |-> None, zone |-> None,
     residential_density |-> None, area_sqm |-> NoValue, building_height |-> None,
     overlays |-> <<>>]

\* An exception inside the try of scrape_goldcoast_property.
GcRaise(e) ==
    /\ pc' = "g_except"
    /\ err' = e

\* Load the City Plan, type the query, select the first result.
GcNavigate ==
    /\ pc = "g_nav"
    /\ steps' = Append(steps, "navigate")
    /\ \E ok \in BOOLEAN :
          IF ok THEN pc' = "g_area" /\ err' = err ELSE GcRaise("NavError")
    /\ UNCHANGED <<workflow, debug, shots, browser_open, ret>>
    /\ UNCHANGED dlVars
    /\ UNCHANGED gcVars
    /\ UNCHANGED exit_status
    /\ UNCHANGED navVars

\* result.area_sqm, result.lot_plan = extract_area_and_lotplan(page)
GcExtractArea ==
    /\ pc = "g_area"
    /\ steps' = Append(steps, "area")
    /\ \E cs \in WorkflowCardPages, countOk \in BOOLEAN :
          LET r == ExtractAreaAndLotplan(cs, countOk)
          IN  /\ cards' = IF countOk THEN cs ELSE <<>>
              /\ result' = [result EXCEPT !.area_sqm = r[1], !.lot_plan = r[2]]
    /\ pc' = "g_wait"
    /\ UNCHANGED <<workflow, debug, err, shots, browser_open, ret, wait_outcome,
                   panel_attempts, panel_source, panel_text, height_layer>>
    /\ UNCHANGED dlVars
    /\ UNCHANGED exit_status
    /\ UNCHANGED navVars

\* Where scrape_left_panel_text goes when the readiness wait raises: the
\* except clause, which reads the body.
AfterWaitMut(ok) == IF ok THEN "g_select" ELSE "g_except"
AfterWait(ok) == IF ok THEN "g_select" ELSE "g_body"

\* scrape_left_panel_text: wait for the zone text, then the settle delay.
GcPanelWait ==
    /\ pc = "g_wait"
    /\ steps' = Append(steps, "panel")
    /\ \E ok \in BOOLEAN :
          /\ wait_outcome' = IF ok THEN "ok" ELSE "timeout"
          /\ pc' = AfterWait(ok)
          /\ err' = IF AfterWait(ok) = "g_except" THEN "ContentTimeout" ELSE err
    /\ UNCHANGED <<workflow, debug, shots, browser_open, ret, cards,
                   panel_attempts, panel_source, panel_text, result, height_layer>>
    /\ UNCHANGED dlVars
    /\ UNCHANGED exit_status
    /\ UNCHANGED navVars

\* The selector the for loop of scrape_left_panel_text is at.
NextPanelSelector(tried) == Len(tried) + 1

\* One iteration of "for selector in selectors": the text is returned when
\* it could be read and mentions a zone or an overlay.
GcTryPanelSelector ==
    /\ pc = "g_select"
    /\ Len(panel_attempts) < NumPanelSelectors
    /\ LET sel == NextPanelSelector(panel_attempts)
       IN  \E raised \in BOOLEAN, text \in PanelTexts :
              /\ panel_attempts' = Append(panel_attempts, sel)
              /\ IF ~raised /\ Relevant(text)
                 THEN /\ panel_text' = text
                      /\ panel_source' = "selector"
                      /\ pc' = "g_extract"
                 ELSE /\ UNCHANGED <<panel_text, panel_source>>
                      /\ pc' = IF Len(panel_attempts') = NumPanelSelectors
                               THEN "g_fallback" ELSE "g_select"
    /\ UNCHANGED <<workflow, debug, err, steps, shots, browser_open, ret, cards,
                   wait_outcome, result, height_layer>>
    /\ UNCHANGED dlVars
    /\ UNCHANGED exit_status
    /\ UNCHANGED navVars

\* "Fallback to body", inside the try: a failure is caught by the except
\* clause, which reads the body again.
GcBodyFallback ==
    /\ pc = "g_fallback"
    /\ \E ok \in BOOLEAN, text \in PanelTexts :
          IF ok
          THEN /\ panel_text' = text
               /\ panel_source' = "body"
               /\ pc' = "g_extract"
          ELSE /\ UNCHANGED <<panel_text, panel_source>>
               /\ pc' = "g_body"
    /\ UNCHANGED <<workflow, debug, err, steps, shots, browser_open, ret, cards,
                   wait_outcome, panel_attempts, result, height_layer>>
    /\ UNCHANGED dlVars
    /\ UNCHANGED exit_status
    /\ UNCHANGED navVars

\* The except clause of scrape_left_panel_text: return the body text; a
\* failure of this read propagates to scrape_goldcoast_property.
GcBodyExcept ==
    /\ pc = "g_body"
    /\ \E ok \in BOOLEAN, text \in PanelTexts :
          IF ok
          THEN /\ panel_text' = text
               /\ panel_source' = "body"
               /\ pc' = "g_extract"
               /\ err' = err
          ELSE /\ UNCHANGED <<panel_text, panel_source>>
               /\ GcRaise("BodyReadError")
    /\ UNCHANGED <<workflow, debug, steps, shots, browser_open, ret, cards,
                   wait_outcome, panel_attempts, result, height_layer>>
    /\ UNCHANGED dlVars
    /\ UNCHANGED exit_status
    /\ UNCHANGED navVars

\* Where scrape_goldcoast_property goes after the extraction: the three
\* values are assigned whatever matched, and the height capture follows.
AfterExtractMut(text) == IF ZoneSearch(text) = 0 THEN "g_except" ELSE "g_height"
AfterExtract(text) == "g_height"

\* result.zone, result.residential_density, result.overlays =
\*     extract_zone_density_overlays(panel_text)
GcExtract ==
    /\ pc = "g_extract"
    /\ steps' = Append(steps, "extract")
    /\ result' = [result EXCEPT !.zone = ExtractZone(panel_text),
                                !.residential_density = ExtractDensity(panel_text),
                                !.overlays = ExtractOverlays(panel_text)]
    /\ pc' = AfterExtract(panel_text)
    /\ UNCHANGED <<workflow, debug, err, shots, browser_open, ret, cards,
                   wait_outcome, panel_attempts, panel_source, panel_text,
                   height_layer>>
    /\ UNCHANGED dlVars
    /\ UNCHANGED exit_status
    /\ UNCHANGED navVars

\* What the height capture came to: the layer was not enabled (the text is
\* not on the page, or the click raised), or it was and screenshot_map
\* returned None, or the screenshot was saved.
HeightLayer(enabled, mapShot) ==
    IF ~enabled THEN "not_enabled"
    ELSE IF mapShot THEN "captured" ELSE "no_screenshot"

\* enable_building_height_layer and screenshot_map: both swallow their errors.
GcHeight ==
    /\ pc = "g_height"
    /\ steps' = Append(steps, "height")
    /\ \E enabled \in BOOLEAN, mapShot \in BOOLEAN :
          /\ height_layer' = HeightLayer(enabled, mapShot)
          /\ result' = [result EXCEPT !.building_height =
                           IF enabled /\ mapShot THEN "(see screenshot)" ELSE @]
    /\ pc' = "g_finish"
    /\ UNCHANGED <<workflow, debug, err, shots, browser_open, ret, cards,
                   wait_outcome, panel_attempts, panel_source, panel_text>>
    /\ UNCHANGED dlVars
    /\ UNCHANGED exit_status
    /\ UNCHANGED navVars

\* Print the results, wait 10 seconds, return result (finally: close).
GcFinish ==
    /\ pc = "g_finish"
    /\ steps' = Append(steps, "finish")
    /\ \E ok \in BOOLEAN :
          IF ok
          THEN /\ pc' = "done"
               /\ err' = err
               /\ browser_open' = BrowserAfter("finally")
               /\ ret' = Success(None)
          ELSE /\ GcRaise("WaitError")
               /\ UNCHANGED <<browser_open, ret>>
    /\ UNCHANGED <<workflow, debug, shots>>
    /\ UNCHANGED dlVars
    /\ UNCHANGED gcVars
    /\ UNCHANGED exit_status
    /\ UNCHANGED navVars

\* What leaves the except clause: the bare raise re-raises e, unless
\* page.screenshot raised before it was reached.
ReRaised(e, shotOk) == IF shotOk THEN e ELSE "ShotError"

\* "except Exception as e": screenshot, raise (finally: close).
GcExcept ==
    /\ pc = "g_except"
    /\ shots' = ErrorShot(shots)
    /\ \E shotOk \in BOOLEAN : ret' = Raised(ReRaised(err, shotOk))
    /\ browser_open' = BrowserAfter("finally")
    /\ pc' = "done"
    /\ UNCHANGED <<workflow, debug, err, steps>>
    /\ UNCHANGED dlVars
    /\ UNCHANGED gcVars
    /\ UNCHANGED exit_status
    /\ UNCHANGED navVars

(***************************************************************************)
(* The two entry points.                                                   *)
(***************************************************************************)
\* pdonline __main__: prints the result either way and runs off the end of
\* the script.
DlExitStatus(r) == 0

\* goldcoast __main__: sys.exit(1) in the except clause, else the end of the
\* script.
GcExitStatus(r) == IF r.kind = "raise" THEN 1 ELSE 0

\* if __name__ == "__main__" of pdonline_pdf_downloader.py, after the call
\* download_decision_notice("MIN/2024/216", debug=True).
DlMain ==
    /\ workflow = "pdonline"
    /\ pc = "done"
    /\ debug
    /\ exit_status = -1
    /\ exit_status' = DlExitStatus(ret)
    /\ UNCHANGED <<workflow, pc, debug, err, steps, shots, browser_open, ret>>
    /\ UNCHANGED dlVars
    /\ UNCHANGED gcVars
    /\ UNCHANGED navVars

\* if __name__ == "__main__" of goldcoast_scraper.py, after the call.
GcMain ==
    /\ workflow = "goldcoast"
    /\ pc = "done"
    /\ exit_status = -1
    /\ exit_status' = GcExitStatus(ret)
    /\ UNCHANGED <<workflow, pc, debug, err, steps, shots, browser_open, ret>>
    /\ UNCHANGED dlVars
    /\ UNCHANGED gcVars
    /\ UNCHANGED navVars

InitCommon ==
    /\ err = "none"
    /\ steps = <<>>
    /\ shots = <<>>
    /\ browser_open = TRUE
    /\ ret = Pending
    /\ attempts = <<>>
    /\ input_filled = FALSE
    /\ found_markers = {}
    /\ docs_section_found = FALSE
    /\ all_rows = <<>>
    /\ documents_found = <<>>
    /\ decision_notice_link = 0
    /\ cards = <<>>
    /\ wait_outcome = "pending"
    /\ panel_attempts = <<>>
    /\ panel_source = "none"
    /\ panel_text = <<>>
    /\ result = NewPropertyData
    /\ height_layer = "pending"
    /\ branch = "none"
    /\ result_clicks = 0
    /\ search_submits = 0
    /\ exit_status = -1

Init ==
    /\ workflow \in {"pdonline", "goldcoast"}
    /\ debug \in (IF workflow = "pdonline" THEN BOOLEAN ELSE {FALSE})
    /\ pc = IF workflow = "pdonline" THEN "d_nav" ELSE "g_nav"
    /\ InitCommon

Next ==
    \/ DlNavigate
    \/ DlTrySelector
    \/ DlFallback
    \/ DlSearch
    \/ DlBranch
    \/ DlVerifyDetail
    \/ DlLocateDocs
    \/ DlScan
    \/ DlMatch
    \/ DlDownload
    \/ DlExcept
    \/ GcNavigate
    \/ GcExtractArea
    \/ GcPanelWait
    \/ GcTryPanelSelector
    \/ GcBodyFallback
    \/ GcBodyExcept
    \/ GcExtract
    \/ GcHeight
    \/ GcFinish
    \/ GcExcept
    \/ DlMain
    \/ GcMain

Spec == Init /\ [][Next]_vars

(***************************************************************************)
(* extract_zone_density_overlays applied to every panel text over the      *)
(* overlay tokens.                                                         *)
(***************************************************************************)
OverlayTokens ==
    {"Overlays", NL, SP, "LGIP", "Flood overlay", "Bushfire overlay",
     "SHOW ON MAP", "Flood"}

OverlayTexts == SeqsUpTo(OverlayTokens, MaxOverlayText)

InitOverlays ==
    /\ workflow = "extract"
    /\ debug = FALSE
    /\ pc = "g_extract"
    /\ err = "none"
    /\ steps = <<>>
    /\ shots = <<>>
    /\ browser_open = TRUE
    /\ ret = Pending
    /\ attempts = <<>>
    /\ input_filled = FALSE
    /\ found_markers = {}
    /\ docs_section_found = FALSE
    /\ all_rows = <<>>
    /\ documents_found = <<>>
    /\ decision_notice_link = 0
    /\ cards = <<>>
    /\ wait_outcome = "ok"
    /\ panel_attempts = <<>>
    /\ panel_source = "body"
    /\ panel_text \in OverlayTexts
    /\ result = NewPropertyData
    /\ height_layer = "pending"
    /\ branch = "none"
    /\ result_clicks = 0
    /\ search_submits = 0
    /\ exit_status = -1

SpecOverlays == InitOverlays /\ [][GcExtract]_vars

(***************************************************************************)
(* extract_area_and_lotplan applied to every sequence of cards.            *)
(***************************************************************************)
AreaChars == {"1", ",", "."}

Groups == SeqsUpTo(AreaChars, MaxGroup) \ {<<>>}

CardKinds ==
    {Card(FALSE, NoValue, None), Card(TRUE, NoValue, None),
     Card(TRUE, NoValue, "4GTP446"), Card(TRUE, Some(<<"1", ",", "1">>), "4GTP446")}
    \cup {Card(TRUE, Some(g), None) : g \in Groups}

CardPages == SeqsUpTo(CardKinds, MaxCards)

InitArea ==
    /\ workflow = "area"
    /\ debug = FALSE
    /\ pc = "a_call"
    /\ InitCommon

\* area, lotplan = extract_area_and_lotplan(page)
CallExtractArea ==
    /\ pc = "a_call"
    /\ \E cs \in CardPages, countOk \in BOOLEAN :
          LET r == ExtractAreaAndLotplan(cs, countOk)
          IN  /\ cards' = IF countOk THEN cs ELSE <<>>
              /\ result' = [result EXCEPT !.area_sqm = r[1], !.lot_plan = r[2]]
    /\ pc' = "a_done"
    /\ UNCHANGED <<workflow, debug, err, steps, shots, browser_open, ret,
                   wait_outcome, panel_attempts, panel_source, panel_text,
                   height_layer>>
    /\ UNCHANGED dlVars
    /\ UNCHANGED exit_status
    /\ UNCHANGED navVars

SpecArea == InitArea /\ [][CallExtractArea]_vars

(***************************************************************************)
(* Properties.                                                             *)
(***************************************************************************)
Done == pc = "done"

Failed == Done /\ (ret.kind = "raise" \/ ~ret.success)

Executed(step) == step \in Range(steps)

LastStep == IF steps = <<>> THEN "none" ELSE steps[Len(steps)]

NoRepeat(s) == \A i, j \in 1..Len(s) : i # j => s[i] # s[j]

InListOrder(tried) == \A i \in 1..Len(tried) : tried[i] = i

\* C1: the application-number selectors and the panel selectors are attempted
\* strictly in list order, one per step and none twice; the loop is left at
\* the first selector that succeeds, so nothing is attempted after a success,
\* and the fallback is reached only after every listed selector has failed.
C1_LocatorOrder ==
    /\ InListOrder(attempts)
    /\ InListOrder(panel_attempts)
    /\ input_filled => pc # "d_input"
    /\ panel_source = "selector" => pc # "g_select"
    /\ (pc = "d_fallback" \/ Executed("fallback")) =>
          (attempts = <<1, 2, 3>> /\ ~input_filled)
    /\ pc = "g_fallback" => panel_attempts = <<1, 2, 3, 4, 5>>

\* C1 witness: only the third application-number selector succeeded, after
\* the first and the second were attempted and failed.
C1_Witness ==
    /\ input_filled
    /\ attempts = <<1, 2, 3>>
    /\ pc = "d_search"

LaterSteps == {"scan", "match", "download"}

NoMarkers == Executed("markers") /\ found_markers = {}

NoDocsSection == Executed("docs") /\ ~docs_section_found

InputExhausted == Executed("fallback") /\ err = "FillError"

Aborted == pc \in {"d_except", "done"} /\ (Done => ~ret.success)

\* C2 as claimed: once every strategy of a navigation step (application-number
\* input, detail-page markers, documents section) is exhausted, the run is
\* failed and no later step (scan, match, download) is executed.
C2_Original ==
    (InputExhausted \/ NoMarkers \/ NoDocsSection) =>
        (Aborted /\ Range(steps) \cap LaterSteps = {})

\* C2 as amended: exhausting the application-number input (the three selectors
\* and the fallback fill) is fatal and no later step runs; finding no detail
\* marker or no documents section is a warning, after which the run goes on
\* to the next step unless the warning's own screenshot raised.
C2_Amended ==
    /\ InputExhausted =>
          (Aborted /\ Range(steps) \cap LaterSteps = {} /\ LastStep = "fallback")
    /\ (NoMarkers /\ LastStep = "markers") =>
          \/ pc = "d_docs"
          \/ debug /\ err = "ShotError" /\ Aborted
    /\ (NoDocsSection /\ LastStep = "docs") =>
          \/ pc = "d_scan"
          \/ debug /\ err = "ShotError" /\ Aborted

\* C2 witness: no marker and no documents section were found, and the run
\* still scanned the rows and downloaded the notice.
C2_Witness ==
    /\ NoMarkers
    /\ NoDocsSection
    /\ Done
    /\ ret.success

HasMarker(row) == row.readable /\ ContainsPhrase(row.text, MarkerPhrase)

ExampleRows ==
    << Row(TRUE, <<"Plan", "Form">>, 2, "Plan Form", TRUE),
       Row(TRUE, <<"Signed", "Decision", "Notice">>, 2, "Signed Decision Notice", TRUE),
       Row(TRUE, <<"Signed", "Decision", "Notice", "(draft)">>, 2,
           "Signed Decision Notice (draft)", TRUE) >>

NoMatch == Done /\ ret.error = "Signed Decision Notice not found"

\* C4 as claimed: the NoMatch outcome is returned, not raised, with success
\* false and no file path, and documents_available holds the display name of
\* every row the scan visited, in page order.
C4_Original ==
    NoMatch =>
        /\ ret.kind = "return"
        /\ ~ret.success
        /\ ret.file_path = None
        /\ ret.documents_available = [i \in 1..Len(all_rows) |-> all_rows[i].name]

NamesOf(rows) == [i \in 1..Len(rows) |-> rows[i].name]

\* C4 as amended: whenever no row is selected the NoMatch outcome is
\* returned, not raised, with success false and no file path, and
\* documents_available holds, in page order, the second-cell name of exactly
\* the rows whose text can be read, contains one of the document keywords,
\* and that have at least two cells and a non-empty name.
C4_Amended ==
    /\ (Executed("match") /\ decision_notice_link = 0) => NoMatch
    /\ NoMatch =>
          /\ ret.kind = "return"
          /\ ~ret.success
          /\ ret.file_path = None
          /\ ret.documents_available =
                NamesOf(SelectSeq(all_rows,
                    LAMBDA r : /\ r.readable
                               /\ r.text \in Seq(STRING)
                               /\ \E k \in Keywords : k \in Range(r.text)
                               /\ r.ncells >= 2
                               /\ r.name # ""))

\* C4 witness: NoMatch over two rows of which only one is listed.
C4_Witness ==
    /\ NoMatch
    /\ Len(all_rows) = 2
    /\ ret.documents_available = <<"Plan Form">>

ErrorShots == Cardinality({i \in 1..Len(shots) : shots[i] = "error"})

Delivered == ret.kind \in {"return", "raise"} /\ ret.error # "none"

NoStepTwice == NoRepeat(steps) /\ NoRepeat(attempts) /\ NoRepeat(panel_attempts)

\* C5 as claimed: a run that ends failed has invoked the diagnostics capture
\* exactly once, the failure reached the caller, and no step ran twice.
C5_Original ==
    Failed => (Len(shots) = 1 /\ Delivered /\ NoStepTwice)

\* C5 as amended: a failed run of scrape_goldcoast_property has invoked the
\* capture exactly once. A failed run of download_decision_notice has invoked
\* the failure handler's capture at most once, only with debug on and only
\* when it failed through the catch-all handler; its structured early returns
\* (no results, no link, no results table, NoMatch) invoke none there, and
\* the warning captures (no markers, no documents section) may come before.
\* In both, the failure reaches the caller and no step runs twice.
C5_Amended ==
    Failed =>
        /\ workflow = "goldcoast" => shots = <<"error">>
        /\ workflow = "pdonline" =>
              /\ ErrorShots <= 1
              /\ err = "none" => ErrorShots = 0
              /\ ~debug => shots = <<>>
              /\ NoRepeat(shots)
        /\ Delivered
        /\ NoStepTwice

\* C5 witness: a failed download run in which both warning captures and the
\* failure handler's capture were invoked.
C5_Witness ==
    /\ Failed
    /\ workflow = "pdonline"
    /\ shots = <<"detail", "nodocs", "error">>

\* C6: a failing screenshot is swallowed: the failure the caller gets, and
\* the exception a run is handling, is never the capture's own error.
C6_CaptureSwallowed ==
    /\ err # "ShotError"
    /\ ret.error # "ShotError"

Min(S) == CHOOSE x \in S : \A y \in S : x <= y

\* The text after the first 'Overlays' up to the first end anchor after it.
RefSection(text) ==
    LET starts == {i \in 1..Len(text) : Lower(text[i]) = "overlays"}
        s == Min(starts)
        ends == {j \in (s + 1)..Len(text) :
                    Lower(text[j]) \in {"lgip", "local government", "plan zone"}}
        e == IF ends = {} THEN Len(text) + 1 ELSE Min(ends)
    IN  IF starts = {} THEN <<>> ELSE SubSeq(text, s + 1, e - 1)

\* The trimmed non-empty lines that hold no excluded term and are longer
\* than minLen characters.
RefFilter(lines, minLen) ==
    SelectSeq(lines,
        LAMBDA ln : /\ \A i \in 1..Len(ln) : Lower(ln[i]) \notin Exclude
                    /\ LineLen(ln) > minLen)

\* s without the elements that occurred earlier in it.
RECURSIVE Dedup(_)
Dedup(s) ==
    IF s = <<>> THEN <<>>
    ELSE LET front == Dedup(SubSeq(s, 1, Len(s) - 1))
         IN  IF s[Len(s)] \in Range(front) THEN front ELSE Append(front, s[Len(s)])

Extracted == pc = "g_height"

ExampleText ==
    <<"Overlays", NL, "Flood overlay", NL, "Show on map", NL, "Bushfire overlay", NL,
      "Flood overlay", NL, "LGIP">>

\* C7 as claimed: the overlay list is the section after the first 'Overlays'
\* up to the first end anchor, split into trimmed non-empty lines, without
\* the lines holding an excluded term, deduplicated in first-seen order.
C7_Original ==
    Extracted =>
        result.overlays = Dedup(RefFilter(StrippedLines(RefSection(panel_text)), 0))

\* C7 as amended: as claimed, except that lines of five characters or fewer
\* are dropped too; the list holds no line with an excluded term in any
\* case and no duplicate, and the example text gives exactly
\* ['Flood overlay', 'Bushfire overlay'].
C7_Amended ==
    /\ Extracted =>
          /\ result.overlays =
                Dedup(RefFilter(StrippedLines(RefSection(panel_text)), MinOverlayLen))
          /\ \A i \in 1..Len(result.overlays) :
                \A k \in 1..Len(result.overlays[i]) :
                    Lower(result.overlays[i][k]) \notin Exclude
          /\ NoRepeat(result.overlays)
    /\ ExtractOverlays(ExampleText) = << <<"Flood overlay">>, <<"Bushfire overlay">> >>

\* C7 witness: a text whose section holds a line of five characters and a
\* longer one; only the longer one is returned.
C7_Witness ==
    /\ Extracted
    /\ panel_text = <<"Overlays", "Flood", NL, "Flood overlay", "LGIP">>
    /\ result.overlays = << <<"Flood overlay">> >>

ZoneMatches(text) == {i \in 1..Len(text) : Lower(text[i]) \in ZoneCategories}

\* C8: the zone of the record is absent or one of the four zoning categories
\* (in the letter case of the panel); after extraction it is the first
\* match of the panel text, verbatim, and absent when nothing matches; a
\* text with exactly one of the phrases gives that phrase as written; and a
\* zone that is set is never overwritten.
C8_Zone ==
    /\ [](/\ result.zone = None \/ Lower(result.zone) \in ZoneCategories
          /\ Executed("extract") =>
                /\ ZoneMatches(panel_text) = {} => result.zone = None
                /\ ZoneMatches(panel_text) # {} =>
                      result.zone = panel_text[Min(ZoneMatches(panel_text))]
                /\ \A i \in 1..Len(panel_text) :
                      ZoneMatches(panel_text) = {i} => result.zone = panel_text[i]
          /\ ~Executed("extract") => result.zone = None)
    /\ [][result.zone # None => result.zone' = result.zone]_vars

\* C8 witness: a panel text with two zone phrases, the first in upper case;
\* the zone is the first, as written.
C8_Witness ==
    /\ Executed("extract")
    /\ panel_text = <<"MEDIUM DENSITY RESIDENTIAL", "Low density residential">>
    /\ result.zone = "MEDIUM DENSITY RESIDENTIAL"
    /\ Done

AreaMatches(cs) == {i \in 1..Len(cs) : cs[i].readable /\ cs[i].area.some}

\* C9: the area is the numeric string of the first card matching the area
\* pattern, with the thousands separators removed; it is absent when no
\* card matches, never the empty string, and not replaced by a later match.
C9_Area ==
    pc = "a_done" =>
        /\ AreaMatches(cards) = {} => result.area_sqm = NoValue
        /\ AreaMatches(cards) # {} =>
              result.area_sqm =
                  Some(SelectSeq(cards[Min(AreaMatches(cards))].area.val,
                                 LAMBDA c : c # ","))
        /\ result.area_sqm.some => result.area_sqm.val # <<>>

\* C10: when the readiness wait of scrape_left_panel_text times out, the
\* timeout is not raised to the caller and does not abort the run: no panel
\* selector is tried, the panel text is the body text read at that moment,
\* extraction runs on it, and only a failure of that read or of a later
\* step can end the run.
C10_TimeoutNonFatal ==
    wait_outcome = "timeout" =>
        /\ err # "ContentTimeout"
        /\ ret.error # "ContentTimeout"
        /\ panel_attempts = <<>>
        /\ LastStep = "panel" =>
              \/ pc = "g_body"
              \/ pc = "g_extract" /\ panel_source = "body"
              \/ err = "BodyReadError" /\ pc \in {"g_except", "done"}
        /\ Executed("extract") =>
              /\ panel_source = "body"
              /\ result.zone = ExtractZone(panel_text)
              /\ result.overlays = ExtractOverlays(panel_text)

\* C10 witness: the wait timed out and the run completed with a zone
\* extracted from the body text.
C10_Witness ==
    /\ wait_outcome = "timeout"
    /\ panel_source = "body"
    /\ Done
    /\ ret.success
    /\ result.zone # None

Exited == exit_status # -1

\* C11: for both entry points the process exits with status 0 only when the
\* workflow succeeded; a run whose workflow failed (an exception from
\* scrape_goldcoast_property, success false from download_decision_notice)
\* exits with a non-zero status.
C11_ExitStatus ==
    Exited =>
        /\ exit_status = 0 => (Done /\ ret.kind = "return" /\ ret.success)
        /\ Failed => exit_status # 0

Completed == workflow = "goldcoast" /\ Done /\ ret.kind = "return"

LotMatches(cs) == {i \in 1..Len(cs) : cs[i].readable /\ cs[i].lot # None}

DensityMatches(text) == {i \in 1..Len(text) : DensityMatchAt(text[i])}

OverlayAnchors(text) == {i \in 1..Len(text) : StartAnchorAt(text[i])}

\* The four fields whose value is the group of a pattern: absent exactly
\* when the pattern matched nowhere.
PatternFields ==
    /\ result.address = "query"
    /\ result.lot_plan = None <=> LotMatches(cards) = {}
    /\ result.area_sqm = NoValue <=> AreaMatches(cards) = {}
    /\ result.zone = None <=> ZoneMatches(panel_text) = {}
    /\ result.residential_density = None <=> DensityMatches(panel_text) = {}

\* The three extraction steps of scrape_goldcoast_property.
ExtractionStep == pc \in {"g_area", "g_extract", "g_height"}

\* C12 as stated: a run of scrape_goldcoast_property in which field patterns
\* miss still completes, and in the PropertyData it returns exactly the
\* unmatched fields are absent (overlays empty for a missing overlay
\* section, building height absent for a layer that was not found) and the
\* address is the query.
C12_Original ==
    Completed =>
        /\ ret.success
        /\ PatternFields
        /\ result.overlays = <<>> <=> OverlayAnchors(panel_text) = {}
        /\ result.building_height = None <=> height_layer = "not_enabled"

\* C12 amended: no extraction miss raises or enters the failure path (the
\* except clause is entered only from the navigation, the panel read and
\* the closing wait; the three extraction steps always hand over to the
\* next step); a completed run returns a PropertyData with the query as
\* address in which lot/plan, zone, density and area are absent exactly when
\* their pattern matched nowhere; the overlays are empty when the section
\* pattern does not match, and also when it matches and no line is kept;
\* the building height is absent unless the layer was enabled and the map
\* screenshot was saved.
C12_Amended ==
    /\ [](/\ pc = "g_except" => LastStep \in {"navigate", "panel", "finish"}
          /\ Completed =>
                /\ ret.success
                /\ Executed("area") /\ Executed("extract") /\ Executed("height")
                /\ PatternFields
                /\ OverlayAnchors(panel_text) = {} => result.overlays = <<>>
                /\ result.overlays = ExtractOverlays(panel_text)
                /\ result.building_height = None <=> height_layer # "captured")
    /\ [][ExtractionStep => pc' \in {"g_wait", "g_height", "g_finish"}]_vars

\* C12 witness: a completed run in which every pattern missed; all six
\* fields are absent and the address is the query.
C12_Witness ==
    /\ Completed
    /\ ret.success
    /\ panel_text # <<>>
    /\ ZoneMatches(panel_text) = {}
    /\ DensityMatches(panel_text) = {}
    /\ OverlayAnchors(panel_text) = {}
    /\ AreaMatches(cards) = {} /\ LotMatches(cards) = {}
    /\ height_layer = "not_enabled"
    /\ result = NewPropertyData

\* The steps of download_decision_notice that follow STEP 3.
AfterBranchSteps == {"markers", "docs", "scan", "match", "download"}

\* The early returns of STEP 3 that happen before any click.
EarlyBranches == {"no_link", "no_rows", "table_error"}

\* C13: after the search was submitted, download_decision_notice inspects
\* the page once and branches without retrying.  On the summary page the
\* first row's link is clicked exactly once and the detail page is verified
\* next; without a results table, a result row or a link in the first row
\* the run ends as a structured failure and no later step (markers,
\* documents, scan, match, download) runs; a click that raises ends the run
\* the same way, after its one click.  On any other page no row is clicked
\* and the detail page is verified next.  The search is submitted at most
\* once.
C13_Branch ==
    /\ [](/\ search_submits <= 1
          /\ search_submits = 1 <=> Executed("search")
          /\ result_clicks <= 1
          /\ NoRepeat(steps)
          /\ branch = "none" <=> ~Executed("branch")
          /\ Executed("branch") => search_submits = 1
          /\ branch = "direct" => result_clicks = 0
          /\ branch = "clicked" => result_clicks = 1
          /\ branch \in EarlyBranches => result_clicks = 0
          /\ branch = "click_error" => result_clicks = 1
          /\ branch \in EarlyBranches \cup {"click_error"} =>
                /\ Done
                /\ ret = Failure(BranchError(branch), <<>>)
                /\ LastStep = "branch"
                /\ AfterBranchSteps \cap Range(steps) = {}
          /\ AfterBranchSteps \cap Range(steps) # {} => branch \in {"direct", "clicked"})
    /\ [][pc = "d_branch" =>
            IF branch' \in {"direct", "clicked"} THEN pc' = "d_markers" ELSE pc' = "done"]_vars
    /\ [][pc = "d_markers" => LastStep' = "markers"]_vars

\* C13 witness: the search was submitted once, the summary page's first row
\* was clicked once, and the run went on to verify the detail page and to
\* download the document.
C13_Witness ==
    /\ branch = "clicked"
    /\ search_submits = 1
    /\ result_clicks = 1
    /\ Executed("markers")
    /\ Done
    /\ ret.success

\* Control is back with the caller: the function returned or raised.
Returned == ret.kind # "pending"

\* What a page interaction (click, read, screenshot, download) leaves in
\* the state.
pageVars ==
    <<steps, shots, attempts, input_filled, found_markers, docs_section_found,
      all_rows, documents_found, decision_notice_link, cards, wait_outcome,
      panel_attempts, panel_source, panel_text, result, height_layer, branch,
      result_clicks, search_submits>>

\* C14: in both workflows the browser has been closed whenever control is
\* back with the caller, on every path (success, the early structured
\* failures, NoMatch, the catch-all handler, a raised exception): it is
\* open while the run is under way and closed from the moment it ends, and
\* once it is closed no page interaction happens and it is not reopened.
C14_BrowserReleased ==
    /\ [](/\ Returned => ~browser_open
          /\ Done <=> Returned
          /\ ~Done => browser_open
          /\ Exited => ~browser_open)
    /\ [][~browser_open => ~browser_open' /\ UNCHANGED pageVars]_vars

\* C14 witness: an early structured failure (a results table without rows)
\* has returned to the caller with the browser closed.
C14_Witness ==
    /\ branch = "no_rows"
    /\ Returned
    /\ ~ret.success
    /\ ~browser_open
    /\ Exited

====
